---------------------------- MODULE Spec2Model ----------------------------
(***************************************************************************)
(* Model of the buy-listing (settlement) instruction of the reward center  *)
(* program: program/src/listings/buy/mod.rs.                                *)
(*                                                                         *)
(* One settlement is one transaction.  The accounts struct BuyListing is   *)
(* validated first (try_accounts), then handler runs its steps in order:   *)
(* assert_metadata_valid, auctioneer_deposit, auctioneer_public_buy,       *)
(* AuctioneerExecuteSale, payouts, the buyer transfer, reload and the      *)
(* seller transfer; on Ok the accounts are exited, which closes the        *)
(* listing to the seller.  Any error ends the transaction and the runtime  *)
(* discards every account change the transaction made.                     *)
(*                                                                         *)
(* The auction house program and the token program are external: they are  *)
(* modelled by the contract the handler relies on (spec section 6 and the  *)
(* token program's transfer rule: the authority must own the source and    *)
(* the source must hold the amount).                                       *)
(***************************************************************************)
EXTENDS Integers, Sequences, FiniteSets, TLC

VARIABLES
    chain,         \* the accounts as the running transaction sees them
    pre,           \* the accounts as they were when the transaction began
    auction_house, \* the auction house instance (never written by this program)
    tx,            \* the transaction in flight or the last one ended
    sales          \* history: successful settlements per listing

vars == <<chain, pre, auction_house, tx, sales>>

---------------------------------------------------------------------------
(* Identities *)

Buyers == {"bob", "carol"}
Seller == "alice"
Wallets == Buyers \cup {Seller}
Listings == {"L1", "L2"}

\* listing.price and listing.token_size as stored by the (out of scope)
\* create-listing instruction.
ListingPrice(l) == IF l = "L1" THEN 1000 ELSE 600
ListingTokenSize(l) == 1

\* u64::MAX, scaled to 31 bits; only ever compared, never added.
U64_MAX == 2147483647

\* Seed constants, by the names the source imports.
LISTING == "listing"
REWARD_CENTER == "reward_center"
PREFIX == "auction_house"
FEE_PAYER == "fee_payer"
TREASURY == "treasury"
SIGNER == "signer"

ThisProgram == "reward_center_program"
AuctionHouseProgram == "auction_house_program"
AuctionHouseKey == "ah"

\* Pubkey::create_program_address / find_program_address: a deterministic,
\* injective function of the owning program, the seeds and the bump.
Pda(program, seeds, bump) == <<program, seeds, bump>>

\* The same derivation for the reward center, whose address is also compared
\* with wallet keys (the owners of token accounts) and is therefore kept in
\* the representation of a wallet key.
RECURSIVE Join(_)
Join(seeds) == IF seeds = <<>> THEN "" ELSE "/" \o Head(seeds) \o Join(Tail(seeds))

PdaKey(program, seeds, bump) == program \o Join(seeds) \o "#" \o bump

\* u64::to_le_bytes: an injective encoding of the number as a seed.
to_le_bytes(n) == ToString(n)

\* A bump is kept symbolic; "canon" is the one find_program_address returns.
Bumps == {"canon", "other"}

RewardCenterKey == PdaKey(ThisProgram, <<REWARD_CENTER, AuctionHouseKey>>, "canon")

\* The asset of listing l: its token account, mint and metadata account.
TokenAccountOf(l) == "tokacct_" \o l
TokenMintOf(l) == "mint_" \o l
MetadataOf(l) == "meta_" \o l

ListingKey(l) == Pda(ThisProgram, <<LISTING, Seller, MetadataOf(l), RewardCenterKey>>, "canon")

EscrowSeeds(ah, buyer) == <<PREFIX, ah, buyer>>
FeeSeeds(ah) == <<PREFIX, ah, FEE_PAYER>>
TreasurySeeds(ah) == <<PREFIX, ah, TREASURY>>
SignerSeeds == <<PREFIX, SIGNER>>
BuyerTradeStateSeeds(buyer, ah, treasury_mint, token_mint, price, size) ==
    <<PREFIX, buyer, ah, treasury_mint, token_mint, to_le_bytes(price), to_le_bytes(size)>>
SellerTradeStateSeeds(seller, ah, token_account, treasury_mint, token_mint, price, size) ==
    <<PREFIX, seller, ah, token_account, treasury_mint, token_mint,
      to_le_bytes(price), to_le_bytes(size)>>

EscrowKey(buyer) == Pda(AuctionHouseProgram, EscrowSeeds(AuctionHouseKey, buyer), "canon")
EscrowAccounts == {EscrowKey(b) : b \in Buyers}

---------------------------------------------------------------------------
(* Token accounts (SPL), other than the escrow accounts *)

RewardMint == "RWD"
TokenAccounts ==
    {"rcVault", "rogueVault",
     "bobRwd", "carolRwd", "aliceRwd",
     "bobPay", "carolPay", "alicePay",
     "bobJunk", "carolJunk", "aliceJunk"}

RewardAccountOf(w) == w \o "Rwd"
PaymentAccountOf(w) == w \o "Pay"
JunkAccountOf(w) == w \o "Junk"

\* TokenAccount.owner: the authority that may transfer out of the account.
OwnerOf(a) ==
    CASE a = "rcVault" -> RewardCenterKey
      [] a = "rogueVault" -> "mallory"
      [] a \in {"bobRwd", "bobPay", "bobJunk"} -> "bob"
      [] a \in {"carolRwd", "carolPay", "carolJunk"} -> "carol"
      [] OTHER -> "alice"

\* TokenAccount.mint.  The payment accounts are of the auction house's
\* treasury mint, which nothing forbids to be the reward mint.
MintOf(a, treasury_mint) ==
    CASE a \in {"rcVault", "rogueVault", "bobRwd", "carolRwd", "aliceRwd"} -> RewardMint
      [] a \in {"bobPay", "carolPay", "alicePay"} -> treasury_mint
      [] OTHER -> "JUNK"

---------------------------------------------------------------------------
(* The reward center and its payouts *)

\* The split parameters a reward center can be configured with (basis points).
Splits ==
    {[buyer |-> 500, seller |-> 500],
     [buyer |-> 500, seller |-> 300],
     [buyer |-> 0, seller |-> 500]}

\* RewardCenter::payouts(listing_price) -> (seller_payout, buyer_payout).
payouts(reward_center, listing_price) ==
    <<(listing_price * reward_center.split.seller) \div 10000,
      (listing_price * reward_center.split.buyer) \div 10000>>

\* Faulty variant: the signer seeds carry another namespace tag.
reward_center_signer_seeds_other_tag(reward_center, auction_house_key) ==
    <<LISTING, auction_house_key, reward_center.bump>>

\* The reward center's signer seeds, built by handler before any call.
reward_center_signer_seeds(reward_center, auction_house_key) ==
    <<REWARD_CENTER, auction_house_key, reward_center.bump>>

\* The key a set of signer seeds signs for.
SignerOf(seeds) == PdaKey(ThisProgram, <<seeds[1], seeds[2]>>, seeds[3])

---------------------------------------------------------------------------
(* A settlement request: the accounts and parameters the caller supplies *)

Other(b) == CHOOSE x \in Buyers : x # b
OtherListing(l) == CHOOSE x \in Listings : x # l

Faults ==
    {"none",
     "buyer_reward_mint", "buyer_reward_owner",
     "seller_reward_mint", "seller_reward_owner",
     "listing", "metadata",
     "escrow", "fee", "ah_treasury",
     "buyer_trade_state", "seller_trade_state", "free_seller_trade_state",
     "program_as_signer",
     "buyer_trade_state_sentinel",
     "buyer_reward_is_payment"}

VaultChoices == {"treasury", "rogue", "payment"}

\* A request carries at most one fault; a faulty request names the reward
\* center's own vault.
Requests ==
    {r \in [buyer : Buyers, asset : Listings, vault : VaultChoices, fault : Faults] :
        r.fault = "none" \/ r.vault = "treasury"}

\* The addresses the constraints of BuyListing derive.
DerivedEscrow(ah, buyer, bump) == Pda(AuctionHouseProgram, EscrowSeeds(ah, buyer), bump)
DerivedFee(ah, bump) == Pda(AuctionHouseProgram, FeeSeeds(ah), bump)
DerivedTreasury(ah, bump) == Pda(AuctionHouseProgram, TreasurySeeds(ah), bump)
DerivedSigner(bump) == Pda(AuctionHouseProgram, SignerSeeds, bump)
DerivedBuyerTradeState(buyer, ah, treasury_mint, token_mint, price, size, bump) ==
    Pda(AuctionHouseProgram,
        BuyerTradeStateSeeds(buyer, ah, treasury_mint, token_mint, price, size), bump)
DerivedSellerTradeState(seller, ah, token_account, treasury_mint, token_mint, price, size, bump) ==
    Pda(AuctionHouseProgram,
        SellerTradeStateSeeds(seller, ah, token_account, treasury_mint, token_mint, price, size),
        bump)

\* The trade states a client derives for buyer b, listing l and the asset k
\* whose token account it supplies (k = l for an honest client), the way the
\* seeds of BuyListing spell them.
BuyerTradeStateOf(b, l, k, treasury_mint) ==
    DerivedBuyerTradeState(b, AuctionHouseKey, treasury_mint, TokenMintOf(k),
                           ListingPrice(l), ListingTokenSize(l), "canon")
\* The buyer trade state a client derives with u64::MAX in the price seed.
SentinelBuyerTradeStateOf(b, l, k, treasury_mint) ==
    DerivedBuyerTradeState(b, AuctionHouseKey, treasury_mint, TokenMintOf(k),
                           U64_MAX, ListingTokenSize(l), "canon")
SellerTradeStateOf(l, k, treasury_mint) ==
    DerivedSellerTradeState(Seller, AuctionHouseKey, TokenAccountOf(k), treasury_mint,
                            TokenMintOf(k), U64_MAX, ListingTokenSize(l), "canon")
FreeSellerTradeStateOf(l, k, treasury_mint) ==
    DerivedSellerTradeState(Seller, AuctionHouseKey, TokenAccountOf(k), treasury_mint,
                            TokenMintOf(k), 0, ListingTokenSize(l), "canon")

\* The accounts struct as supplied: the honest accounts of the request, with
\* the one account the fault names replaced by another existing account.
\* Under "buyer_reward_is_payment" the buyer names the token account it pays
\* from as its reward account, which the constraints accept when the auction
\* house trades in the reward token.
\* Under "metadata" the caller supplies the token account and mint of another
\* asset of the seller (with trade states derived to match), so the metadata
\* account no longer decorates the supplied token account.
BuyListing(r, ah) ==
    LET b == r.buyer
        l == r.asset
        f == r.fault
        odd == IF f = "metadata" THEN OtherListing(l) ELSE l
    IN [buyer |-> b,
        payment_account |-> PaymentAccountOf(b),
        buyer_reward_token_account |->
            CASE f = "buyer_reward_mint" -> JunkAccountOf(b)
              [] f = "buyer_reward_owner" -> RewardAccountOf(Other(b))
              [] f = "buyer_reward_is_payment" -> PaymentAccountOf(b)
              [] OTHER -> RewardAccountOf(b),
        seller |-> Seller,
        seller_reward_token_account |->
            CASE f = "seller_reward_mint" -> JunkAccountOf(Seller)
              [] f = "seller_reward_owner" -> RewardAccountOf(b)
              [] OTHER -> RewardAccountOf(Seller),
        listing |-> IF f = "listing" THEN OtherListing(l) ELSE l,
        token_account |-> TokenAccountOf(odd),
        token_mint |-> TokenMintOf(odd),
        metadata |-> MetadataOf(l),
        treasury_mint |-> ah.treasury_mint,
        seller_payment_receipt_account |-> PaymentAccountOf(Seller),
        escrow_payment_account |->
            IF f = "escrow" THEN EscrowKey(Other(b)) ELSE EscrowKey(b),
        auction_house |-> AuctionHouseKey,
        auction_house_fee_account |->
            IF f = "fee" THEN DerivedTreasury(AuctionHouseKey, "canon")
            ELSE DerivedFee(AuctionHouseKey, "canon"),
        auction_house_treasury |->
            IF f = "ah_treasury" THEN DerivedFee(AuctionHouseKey, "canon")
            ELSE DerivedTreasury(AuctionHouseKey, "canon"),
        buyer_trade_state |->
            CASE f = "buyer_trade_state"
                   -> BuyerTradeStateOf(Other(b), l, odd, ah.treasury_mint)
              [] f = "buyer_trade_state_sentinel"
                   -> SentinelBuyerTradeStateOf(b, l, odd, ah.treasury_mint)
              [] OTHER -> BuyerTradeStateOf(b, l, odd, ah.treasury_mint),
        seller_trade_state |->
            IF f = "seller_trade_state"
            THEN FreeSellerTradeStateOf(l, odd, ah.treasury_mint)
            ELSE SellerTradeStateOf(l, odd, ah.treasury_mint),
        free_seller_trade_state |->
            IF f = "free_seller_trade_state"
            THEN SellerTradeStateOf(l, odd, ah.treasury_mint)
            ELSE FreeSellerTradeStateOf(l, odd, ah.treasury_mint),
        reward_center |-> RewardCenterKey,
        reward_center_reward_token_account |->
            CASE r.vault = "treasury" -> "rcVault"
              [] r.vault = "rogue" -> "rogueVault"
              [] OTHER -> PaymentAccountOf(b),
        program_as_signer |->
            IF f = "program_as_signer" THEN DerivedSigner("other")
            ELSE DerivedSigner("canon")]

\* BuyListingParams: the five bumps of an honest client.
BuyListingParams ==
    [buyer_trade_state_bump |-> "canon",
     escrow_payment_bump |-> "canon",
     free_trade_state_bump |-> "canon",
     seller_trade_state_bump |-> "canon",
     program_as_signer_bump |-> "canon"]

---------------------------------------------------------------------------
(* Account validation: the constraints of #[derive(Accounts)] BuyListing *)

\* Faulty variant: a closed listing still deserializes.
DeserializeClosed(c, a) == "ok"

\* Account<Listing>, Account<TokenAccount>, ... are deserialized first; a
\* closed listing has no data to deserialize.
Deserialize(c, a) ==
    IF c.listing[a.listing].open THEN "ok" ELSE "AccountNotInitialized"

\* Faulty variant: the owner of the buyer's reward account is not compared.
buyer_reward_token_account_any_owner(c, ah, a) ==
    IF c.reward_center.token_mint # MintOf(a.buyer_reward_token_account, ah.treasury_mint)
    THEN "MintMismatch"
    ELSE "ok"

buyer_reward_token_account_constraint(c, ah, a) ==
    IF c.reward_center.token_mint # MintOf(a.buyer_reward_token_account, ah.treasury_mint)
    THEN "MintMismatch"
    ELSE IF OwnerOf(a.buyer_reward_token_account) # a.buyer
    THEN "BuyerTokenAccountMismatch"
    ELSE "ok"

seller_reward_token_account_constraint(c, ah, a) ==
    IF MintOf(a.buyer_reward_token_account, ah.treasury_mint)
         # MintOf(a.seller_reward_token_account, ah.treasury_mint)
    THEN "MintMismatch"
    ELSE IF OwnerOf(a.seller_reward_token_account) # a.seller
    THEN "SellerTokenAccountMismatch"
    ELSE "ok"

listing_constraint(c, ah, a) ==
    IF ListingKey(a.listing)
         = Pda(ThisProgram, <<LISTING, a.seller, a.metadata, a.reward_center>>,
               c.listing[a.listing].bump)
    THEN "ok" ELSE "ConstraintSeeds"

\* Faulty variant: the escrow account is taken as supplied.
escrow_payment_account_unchecked(c, ah, a, p) == "ok"

escrow_payment_account_constraint(c, ah, a, p) ==
    IF a.escrow_payment_account
         = DerivedEscrow(a.auction_house, a.buyer, p.escrow_payment_bump)
    THEN "ok" ELSE "ConstraintSeeds"

auction_house_fee_account_constraint(c, ah, a) ==
    IF a.auction_house_fee_account = DerivedFee(a.auction_house, ah.fee_payer_bump)
    THEN "ok" ELSE "ConstraintSeeds"

auction_house_treasury_constraint(c, ah, a) ==
    IF a.auction_house_treasury = DerivedTreasury(a.auction_house, ah.treasury_bump)
    THEN "ok" ELSE "ConstraintSeeds"

\* Faulty variant: the buyer trade state is taken as supplied.
buyer_trade_state_unchecked(c, ah, a, p) == "ok"

\* Faulty variant: the buyer trade state is derived with u64::MAX as price.
buyer_trade_state_sentinel_constraint(c, ah, a, p) ==
    IF a.buyer_trade_state
         = DerivedBuyerTradeState(a.buyer, a.auction_house, a.treasury_mint, a.token_mint,
                                  U64_MAX,
                                  c.listing[a.listing].token_size,
                                  p.buyer_trade_state_bump)
    THEN "ok" ELSE "ConstraintSeeds"

buyer_trade_state_constraint(c, ah, a, p) ==
    IF a.buyer_trade_state
         = DerivedBuyerTradeState(a.buyer, a.auction_house, a.treasury_mint, a.token_mint,
                                  c.listing[a.listing].price,
                                  c.listing[a.listing].token_size,
                                  p.buyer_trade_state_bump)
    THEN "ok" ELSE "ConstraintSeeds"

seller_trade_state_constraint(c, ah, a, p) ==
    IF a.seller_trade_state
         = DerivedSellerTradeState(a.seller, a.auction_house, a.token_account,
                                   a.treasury_mint, a.token_mint, U64_MAX,
                                   c.listing[a.listing].token_size,
                                   p.seller_trade_state_bump)
    THEN "ok" ELSE "ConstraintSeeds"

free_seller_trade_state_constraint(c, ah, a, p) ==
    IF a.free_seller_trade_state
         = DerivedSellerTradeState(a.seller, a.auction_house, a.token_account,
                                   a.treasury_mint, a.token_mint, 0,
                                   c.listing[a.listing].token_size,
                                   p.free_trade_state_bump)
    THEN "ok" ELSE "ConstraintSeeds"

\* Faulty variant: the treasury account must also belong to the reward center.
reward_center_reward_token_account_owned(c, ah, a) ==
    IF c.reward_center.token_mint
         # MintOf(a.reward_center_reward_token_account, ah.treasury_mint)
    THEN "MintMismatch"
    ELSE IF OwnerOf(a.reward_center_reward_token_account) # a.reward_center
    THEN "ConstraintTokenOwner"
    ELSE "ok"

reward_center_reward_token_account_constraint(c, ah, a) ==
    IF c.reward_center.token_mint
         = MintOf(a.reward_center_reward_token_account, ah.treasury_mint)
    THEN "ok" ELSE "MintMismatch"

program_as_signer_constraint(c, ah, a, p) ==
    IF a.program_as_signer = DerivedSigner(p.program_as_signer_bump)
    THEN "ok" ELSE "ConstraintSeeds"

\* The first "not ok" of a sequence of check results, or "ok".
RECURSIVE FirstError(_)
FirstError(results) ==
    IF results = <<>> THEN "ok"
    ELSE IF Head(results) # "ok" THEN Head(results)
    ELSE FirstError(Tail(results))

\* The constraints in the order of the fields of the struct.
Constraints(c, ah, a, p) ==
    <<buyer_reward_token_account_constraint(c, ah, a),
      seller_reward_token_account_constraint(c, ah, a),
      listing_constraint(c, ah, a),
      escrow_payment_account_constraint(c, ah, a, p),
      auction_house_fee_account_constraint(c, ah, a),
      auction_house_treasury_constraint(c, ah, a),
      buyer_trade_state_constraint(c, ah, a, p),
      seller_trade_state_constraint(c, ah, a, p),
      free_seller_trade_state_constraint(c, ah, a, p),
      reward_center_reward_token_account_constraint(c, ah, a),
      program_as_signer_constraint(c, ah, a, p)>>

try_accounts(c, ah, a, p) ==
    IF Deserialize(c, a) # "ok" THEN Deserialize(c, a)
    ELSE FirstError(Constraints(c, ah, a, p))

---------------------------------------------------------------------------
(* The external programs the handler calls *)

AssetOfTokenAccount(token_account) ==
    CHOOSE l \in Listings : TokenAccountOf(l) = token_account

\* mpl_auction_house::utils::assert_metadata_valid(metadata, token_account):
\* the metadata account must be the one derived for the token account's mint.
assert_metadata_valid(metadata, token_account) ==
    IF metadata = MetadataOf(AssetOfTokenAccount(token_account))
    THEN "ok" ELSE "InvalidMetadata"

Ok(c) == [err |-> "ok", chain |-> c]
Err(e, c) == [err |-> e, chain |-> c]

\* Faulty variant: a transfer credits the destination and debits nothing.
transfer_without_debit(c, from, to, authority, amount) ==
    IF OwnerOf(from) # authority THEN Err("OwnerMismatch", c)
    ELSE IF c.tokenAmount[from] < amount THEN Err("TokenInsufficientFunds", c)
    ELSE Ok([c EXCEPT !.tokenAmount[to] = @ + amount])

\* Token program transfer: the authority must own the source account and the
\* source must hold the amount.
transfer(c, from, to, authority, amount) ==
    IF OwnerOf(from) # authority THEN Err("OwnerMismatch", c)
    ELSE IF c.tokenAmount[from] < amount THEN Err("TokenInsufficientFunds", c)
    ELSE IF from = to THEN Ok(c)
    ELSE Ok([c EXCEPT !.tokenAmount[from] = @ - amount,
                      !.tokenAmount[to] = @ + amount])

\* Auction house deposit: amount moves from the buyer's payment account into
\* the escrow account; the auctioneer authority must have signed.
auctioneer_deposit(c, ah, a, signer, escrow_payment_bump, amount) ==
    IF signer # a.reward_center THEN Err("MissingAuctioneerAuthority", c)
    ELSE IF \/ MintOf(a.payment_account, ah.treasury_mint) # ah.treasury_mint
            \/ OwnerOf(a.payment_account) # a.buyer
            \/ c.tokenAmount[a.payment_account] < amount
    THEN Err("InsufficientFunds", c)
    ELSE Ok([c EXCEPT !.tokenAmount[a.payment_account] = @ - amount,
                      !.escrow[a.escrow_payment_account] = @ + amount])

\* Auction house public buy: registers the buyer trade state at the address
\* derived from the price and size it is given, backed by the escrow.
auctioneer_public_buy(c, ah, a, signer, buyer_trade_state_bump, price, size) ==
    IF signer # a.reward_center THEN Err("MissingAuctioneerAuthority", c)
    ELSE IF a.buyer_trade_state
              # DerivedBuyerTradeState(a.buyer, a.auction_house, a.treasury_mint,
                                       a.token_mint, price, size, buyer_trade_state_bump)
    THEN Err("DerivedKeyInvalid", c)
    ELSE IF a.buyer_trade_state \in c.trade_states THEN Err("TradeStateConflict", c)
    ELSE IF c.escrow[a.escrow_payment_account] < price THEN Err("InsufficientFunds", c)
    ELSE Ok([c EXCEPT !.trade_states = @ \cup {a.buyer_trade_state}])

\* Auction house execute sale: needs the three trade states open and the asset
\* with the seller; pays the seller from escrow, hands the asset to the buyer
\* and closes the three trade states.
auctioneer_execute_sale(c, ah, a, signer, buyer_price, token_size) ==
    LET asset == AssetOfTokenAccount(a.token_account) IN
    IF signer # a.reward_center THEN Err("MissingAuctioneerAuthority", c)
    ELSE IF ~ ({a.buyer_trade_state, a.seller_trade_state, a.free_seller_trade_state}
                 \subseteq c.trade_states)
    THEN Err("TradeStateConflict", c)
    ELSE IF c.asset_holder[asset] # a.seller THEN Err("TradeStateConflict", c)
    ELSE IF c.escrow[a.escrow_payment_account] < buyer_price
    THEN Err("InsufficientFunds", c)
    ELSE Ok([c EXCEPT
                !.escrow[a.escrow_payment_account] = @ - buyer_price,
                !.tokenAmount[a.seller_payment_receipt_account] = @ + buyer_price,
                !.asset_holder[asset] = a.buyer,
                !.trade_states = @ \ {a.buyer_trade_state, a.seller_trade_state,
                                      a.free_seller_trade_state}])

\* Faulty variant: closing the listing also rewrites the reward center.
close_listing_rewriting_config(c, a) ==
    [c EXCEPT !.listing[a.listing].open = FALSE,
              !.listing[a.listing].closed_to = a.seller,
              !.reward_center.split = [buyer |-> 0, seller |-> 0]]

\* Faulty variant: the listing is not closed.
close_listing_missing(c, a) == c

\* #[account(mut, close = seller)] on listing, applied when the accounts are
\* exited after handler returned Ok.
close_listing(c, a) ==
    [c EXCEPT !.listing[a.listing].open = FALSE,
              !.listing[a.listing].closed_to = a.seller]

\* Faulty variant: the buyer leg is never made.
buyer_transfer_never(c, a, signer, buyer_payout, balance) ==
    [called |-> FALSE, res |-> Ok(c)]

\* Faulty variant: the buyer leg does not look at the balance.
buyer_transfer_unguarded(c, a, signer, buyer_payout, balance) ==
    IF buyer_payout > 0
    THEN [called |-> TRUE,
          res |-> transfer(c, a.reward_center_reward_token_account,
                           a.buyer_reward_token_account, signer, buyer_payout)]
    ELSE [called |-> FALSE, res |-> Ok(c)]

\* Faulty variant: the buyer leg pays what the balance covers.
buyer_transfer_partial(c, a, signer, buyer_payout, balance) ==
    IF buyer_payout > 0 /\ balance > 0
    THEN [called |-> TRUE,
          res |-> transfer(c, a.reward_center_reward_token_account,
                           a.buyer_reward_token_account, signer,
                           IF balance < buyer_payout THEN balance ELSE buyer_payout)]
    ELSE [called |-> FALSE, res |-> Ok(c)]

\* The buyer leg of the payout:
\*   if buyer_payout > 0 && balance >= buyer_payout { transfer(...)?; }
buyer_transfer(c, a, signer, buyer_payout, balance) ==
    IF buyer_payout > 0 /\ balance >= buyer_payout
    THEN [called |-> TRUE,
          res |-> transfer(c, a.reward_center_reward_token_account,
                           a.buyer_reward_token_account, signer, buyer_payout)]
    ELSE [called |-> FALSE, res |-> Ok(c)]

\* Faulty variant: the seller leg wants more than the payout in the account.
seller_transfer_strict(c, a, signer, seller_payout, balance) ==
    IF seller_payout > 0 /\ balance > seller_payout
    THEN [called |-> TRUE,
          res |-> transfer(c, a.reward_center_reward_token_account,
                           a.seller_reward_token_account, signer, seller_payout)]
    ELSE [called |-> FALSE, res |-> Ok(c)]

\* The seller leg of the payout:
\*   if seller_payout > 0 && balance >= seller_payout { transfer(...)? };
seller_transfer(c, a, signer, seller_payout, balance) ==
    IF seller_payout > 0 /\ balance >= seller_payout
    THEN [called |-> TRUE,
          res |-> transfer(c, a.reward_center_reward_token_account,
                           a.seller_reward_token_account, signer, seller_payout)]
    ELSE [called |-> FALSE, res |-> Ok(c)]

\* Faulty variant: the payouts are made before the trade is executed.
HandlerOrderPayoutsFirst ==
    <<"assert_metadata_valid", "auctioneer_deposit", "auctioneer_public_buy",
      "payouts", "buyer_transfer", "reload", "seller_transfer",
      "auctioneer_execute_sale", "exit">>

\* Faulty variant: the deposit is made before the metadata is checked.
HandlerOrderDepositFirst ==
    <<"auctioneer_deposit", "assert_metadata_valid", "auctioneer_public_buy",
      "auctioneer_execute_sale", "payouts", "buyer_transfer", "reload",
      "seller_transfer", "exit">>

\* The statements of handler in the order it runs them.
HandlerOrder ==
    <<"assert_metadata_valid", "auctioneer_deposit", "auctioneer_public_buy",
      "auctioneer_execute_sale", "payouts", "buyer_transfer", "reload",
      "seller_transfer", "exit">>

FirstStep == HandlerOrder[1]
StepAfter(step) ==
    LET i == CHOOSE k \in 1..Len(HandlerOrder) : HandlerOrder[k] = step
    IN IF i = Len(HandlerOrder) THEN "done" ELSE HandlerOrder[i + 1]

---------------------------------------------------------------------------
(* State *)

PaymentMints == {"PAY", RewardMint}
VaultBalances == {0, 30, 40, 60, 1000}
Markets == {"clean", "cancelled_ask", "stale_bid"}

InitialTokenAmount(vault_balance) ==
    [acct \in TokenAccounts |->
        CASE acct = "rcVault" -> vault_balance
          [] acct = "rogueVault" -> vault_balance
          [] acct = "bobPay" -> 2000
          [] acct = "carolPay" -> 1030
          [] OTHER -> 0]

\* The trade states the seller's listings opened at the auction house.  In
\* market "cancelled_ask" the seller has cancelled the ask of L2 directly at
\* the auction house; in "stale_bid" carol already has a bid open on L2.
InitialTradeStates(market, treasury_mint) ==
    {SellerTradeStateOf(l, l, treasury_mint) :
        l \in IF market = "cancelled_ask" THEN {"L1"} ELSE Listings}
    \cup {FreeSellerTradeStateOf(l, l, treasury_mint) :
        l \in IF market = "cancelled_ask" THEN {"L1"} ELSE Listings}
    \cup (IF market = "stale_bid"
          THEN {BuyerTradeStateOf("carol", "L2", "L2", treasury_mint)} ELSE {})

\* What earlier deposits have left in the buyers' escrow accounts.
InitialEscrow ==
    [e \in EscrowAccounts |-> IF e = EscrowKey("bob") THEN 200 ELSE 0]

NoRequest == [buyer |-> "", asset |-> "", vault |-> "", fault |-> ""]

IdleTx ==
    [pc |-> "idle", req |-> NoRequest, err |-> "ok", calls |-> <<>>,
     listing_price |-> 0, token_size |-> 0, signer_seeds |-> <<"", "", "">>,
     vault_amount |-> 0, reward_center_reward_token_balance |-> 0,
     seller_payout |-> 0, buyer_payout |-> 0,
     held_at_buyer_decision |-> 0]

Init ==
    \E mint \in PaymentMints, split \in Splits, v \in VaultBalances, market \in Markets :
        /\ auction_house = [treasury_mint |-> mint, fee_payer_bump |-> "canon",
                            treasury_bump |-> "canon"]
        /\ chain = [tokenAmount |-> InitialTokenAmount(v),
                    escrow |-> InitialEscrow,
                    listing |-> [l \in Listings |->
                                   [open |-> TRUE, price |-> ListingPrice(l),
                                    token_size |-> ListingTokenSize(l),
                                    bump |-> "canon", closed_to |-> ""]],
                    asset_holder |-> [l \in Listings |-> Seller],
                    trade_states |-> InitialTradeStates(market, mint),
                    reward_center |-> [auction_house |-> AuctionHouseKey,
                                       token_mint |-> RewardMint,
                                       split |-> split, bump |-> "canon"]]
        /\ pre = chain
        /\ tx = IdleTx
        /\ sales = [l \in Listings |-> 0]

---------------------------------------------------------------------------
(* The settlement transaction: entry, the steps of handler, exit *)

Accts == BuyListing(tx.req, auction_house)
Params == BuyListingParams

\* The authority the handler's signer seeds sign for in a CPI.
SeedsSigner == SignerOf(tx.signer_seeds)

\* A call made by handler: what is called, who signs, the amounts passed.
Call(op, authority, args) == [op |-> op, authority |-> authority, args |-> args]

\* A step returned Err: handler returns it (the ? operator) and the runtime
\* discards the account changes of the transaction.
Fail(e) ==
    /\ tx' = [tx EXCEPT !.pc = "failed", !.err = e]
    /\ chain' = pre
    /\ UNCHANGED <<pre, auction_house, sales>>

\* A step returned Ok(c): handler goes on to the statement after it.
Proceed(c, step, call) ==
    /\ tx' = [tx EXCEPT !.pc = StepAfter(step), !.calls = Append(@, call)]
    /\ chain' = c
    /\ UNCHANGED <<pre, auction_house, sales>>

\* A payout leg was skipped: nothing was called.
Skip(step) ==
    /\ tx' = [tx EXCEPT !.pc = StepAfter(step)]
    /\ UNCHANGED <<chain, pre, auction_house, sales>>

\* Entry: the accounts are deserialized and their constraints checked, then
\* handler binds its locals (listing_price, token_size, the signer seeds).
Begin(r) ==
    /\ tx.pc = "idle"
    /\ LET a == BuyListing(r, auction_house)
           e == try_accounts(chain, auction_house, a, Params)
       IN tx' = IF e # "ok"
                THEN [IdleTx EXCEPT !.pc = "failed", !.req = r, !.err = e]
                ELSE [IdleTx EXCEPT
                        !.pc = FirstStep,
                        !.req = r,
                        !.vault_amount =
                            chain.tokenAmount[a.reward_center_reward_token_account],
                        !.listing_price = chain.listing[a.listing].price,
                        !.token_size = chain.listing[a.listing].token_size,
                        !.signer_seeds =
                            reward_center_signer_seeds(chain.reward_center,
                                                       a.auction_house)]
    /\ pre' = chain
    /\ UNCHANGED <<chain, auction_house, sales>>

AssertMetadataValid ==
    /\ tx.pc = "assert_metadata_valid"
    /\ LET e == assert_metadata_valid(Accts.metadata, Accts.token_account)
       IN IF e # "ok" THEN Fail(e)
          ELSE Proceed(chain, "assert_metadata_valid", Call("assert_metadata_valid", "", <<>>))

\* Faulty variant: the deposit is of twice the listing price.
AuctioneerDepositTwice ==
    /\ tx.pc = "auctioneer_deposit"
    /\ LET res == auctioneer_deposit(chain, auction_house, Accts, SeedsSigner,
                                     Params.escrow_payment_bump, 2 * tx.listing_price)
       IN IF res.err # "ok" THEN Fail(res.err)
          ELSE Proceed(res.chain, "auctioneer_deposit",
                       Call("auctioneer_deposit", SeedsSigner, <<2 * tx.listing_price>>))

AuctioneerDeposit ==
    /\ tx.pc = "auctioneer_deposit"
    /\ LET res == auctioneer_deposit(chain, auction_house, Accts, SeedsSigner,
                                     Params.escrow_payment_bump, tx.listing_price)
       IN IF res.err # "ok" THEN Fail(res.err)
          ELSE Proceed(res.chain, "auctioneer_deposit",
                       Call("auctioneer_deposit", SeedsSigner, <<tx.listing_price>>))

AuctioneerPublicBuy ==
    /\ tx.pc = "auctioneer_public_buy"
    /\ LET res == auctioneer_public_buy(chain, auction_house, Accts, SeedsSigner,
                                        Params.buyer_trade_state_bump,
                                        tx.listing_price, tx.token_size)
       IN IF res.err # "ok" THEN Fail(res.err)
          ELSE Proceed(res.chain, "auctioneer_public_buy",
                       Call("auctioneer_public_buy", SeedsSigner,
                            <<tx.listing_price, tx.token_size>>))

AuctioneerExecuteSale ==
    /\ tx.pc = "auctioneer_execute_sale"
    /\ LET res == auctioneer_execute_sale(chain, auction_house, Accts, SeedsSigner,
                                          tx.listing_price, tx.token_size)
       IN IF res.err # "ok" THEN Fail(res.err)
          ELSE Proceed(res.chain, "auctioneer_execute_sale",
                       Call("auctioneer_execute_sale", SeedsSigner,
                            <<tx.listing_price, tx.token_size>>))

\* let (seller_payout, buyer_payout) = reward_center.payouts(listing_price)?;
\* let reward_center_reward_token_balance = <the account as deserialized>.amount;
\* (held_at_buyer_decision is history: what the account holds at this moment.)
Payouts ==
    /\ tx.pc = "payouts"
    /\ LET ps == payouts(chain.reward_center, tx.listing_price)
       IN tx' = [tx EXCEPT
                   !.pc = StepAfter("payouts"),
                   !.seller_payout = ps[1],
                   !.buyer_payout = ps[2],
                   !.reward_center_reward_token_balance = tx.vault_amount,
                   !.held_at_buyer_decision =
                       chain.tokenAmount[Accts.reward_center_reward_token_account]]
    /\ UNCHANGED <<chain, pre, auction_house, sales>>

BuyerTransfer ==
    /\ tx.pc = "buyer_transfer"
    /\ LET leg == buyer_transfer(chain, Accts, SeedsSigner, tx.buyer_payout,
                                 tx.reward_center_reward_token_balance)
       IN IF ~ leg.called THEN Skip("buyer_transfer")
          ELSE IF leg.res.err # "ok" THEN Fail(leg.res.err)
          ELSE Proceed(leg.res.chain, "buyer_transfer",
                       Call("transfer_buyer", SeedsSigner, <<tx.buyer_payout>>))

\* Faulty variant: the account is not reloaded before the seller leg.
ReloadMissing ==
    /\ tx.pc = "reload"
    /\ tx' = [tx EXCEPT !.pc = StepAfter("reload")]
    /\ UNCHANGED <<chain, pre, auction_house, sales>>

\* ctx.accounts.reward_center_reward_token_account.reload()?;
\* let reward_center_reward_token_balance = <the reloaded account>.amount;
Reload ==
    /\ tx.pc = "reload"
    /\ LET amount == chain.tokenAmount[Accts.reward_center_reward_token_account]
       IN tx' = [tx EXCEPT !.pc = StepAfter("reload"),
                           !.vault_amount = amount,
                           !.reward_center_reward_token_balance = amount]
    /\ UNCHANGED <<chain, pre, auction_house, sales>>

SellerTransfer ==
    /\ tx.pc = "seller_transfer"
    /\ LET leg == seller_transfer(chain, Accts, SeedsSigner, tx.seller_payout,
                                  tx.reward_center_reward_token_balance)
       IN IF ~ leg.called THEN Skip("seller_transfer")
          ELSE IF leg.res.err # "ok" THEN Fail(leg.res.err)
          ELSE Proceed(leg.res.chain, "seller_transfer",
                       Call("transfer_seller", SeedsSigner, <<tx.seller_payout>>))

\* Ok(()): the accounts are exited, which closes the listing to the seller,
\* and the transaction's changes become final.
Exit ==
    /\ tx.pc = "exit"
    /\ tx' = [tx EXCEPT !.pc = StepAfter("exit")]
    /\ chain' = close_listing(chain, Accts)
    /\ sales' = [sales EXCEPT ![Accts.listing] = @ + 1]
    /\ UNCHANGED <<pre, auction_house>>

\* The transaction has ended; the next one can be submitted.
Retire ==
    /\ tx.pc \in {"done", "failed"}
    /\ tx' = IdleTx
    /\ pre' = chain
    /\ UNCHANGED <<chain, auction_house, sales>>

Next ==
    \/ \E r \in Requests : Begin(r)
    \/ AssertMetadataValid
    \/ AuctioneerDeposit
    \/ AuctioneerPublicBuy
    \/ AuctioneerExecuteSale
    \/ Payouts
    \/ BuyerTransfer
    \/ Reload
    \/ SellerTransfer
    \/ Exit
    \/ Retire

Spec == Init /\ [][Next]_vars

---------------------------------------------------------------------------
(* Vocabulary of the properties *)

Started == tx.pc # "idle"
Ended == tx.pc \in {"done", "failed"}
Quiet == tx.pc \in {"idle", "done", "failed"}

Ops == {tx.calls[i].op : i \in 1..Len(tx.calls)}
MutatingOps ==
    {"auctioneer_deposit", "auctioneer_public_buy", "auctioneer_execute_sale",
     "transfer_buyer", "transfer_seller"}

\* The request on its own terms, whatever the constraints make of it.
ReqVault ==
    CASE tx.req.vault = "treasury" -> "rcVault"
      [] tx.req.vault = "rogue" -> "rogueVault"
      [] OTHER -> PaymentAccountOf(tx.req.buyer)
ReqBuyerReward ==
    IF tx.req.fault = "buyer_reward_is_payment"
    THEN PaymentAccountOf(tx.req.buyer)
    ELSE RewardAccountOf(tx.req.buyer)
ReqSellerReward == RewardAccountOf(Seller)
ReqPrice == ListingPrice(tx.req.asset)

AddressFaults ==
    {"listing", "escrow", "fee", "ah_treasury", "buyer_trade_state",
     "seller_trade_state", "free_seller_trade_state", "program_as_signer",
     "buyer_trade_state_sentinel"}
MintFaults == {"buyer_reward_mint", "seller_reward_mint"}
OwnerFaults == {"buyer_reward_owner", "seller_reward_owner"}

\* One of the preconditions of settlement is violated by the request.
PreconditionViolated ==
    \/ tx.req.fault \in MintFaults \cup OwnerFaults \cup AddressFaults \cup {"metadata"}
    \/ MintOf(ReqVault, auction_house.treasury_mint) # RewardMint
    \/ pre.tokenAmount[PaymentAccountOf(tx.req.buyer)] < ReqPrice

PaidToSeller == chain.tokenAmount[ReqSellerReward] - pre.tokenAmount[ReqSellerReward]
PaidForAsset ==
    chain.tokenAmount[PaymentAccountOf(Seller)] - pre.tokenAmount[PaymentAccountOf(Seller)]

\* What the trade has taken out of the buyer's payment account: what sits in
\* the buyer's escrow and what the seller has been paid.
BuyerSpent ==
    (chain.escrow[EscrowKey(tx.req.buyer)] - pre.escrow[EscrowKey(tx.req.buyer)])
      + PaidForAsset

\* What the buyer's reward account has received, the trade's own payment set
\* aside when that account is also the one the buyer pays from.
PaidToBuyer ==
    (chain.tokenAmount[ReqBuyerReward] - pre.tokenAmount[ReqBuyerReward])
      + (IF ReqBuyerReward = PaymentAccountOf(tx.req.buyer) THEN BuyerSpent ELSE 0)

TradeStatesOf(b, l) ==
    {BuyerTradeStateOf(b, l, l, auction_house.treasury_mint),
     SellerTradeStateOf(l, l, auction_house.treasury_mint),
     FreeSellerTradeStateOf(l, l, auction_house.treasury_mint)}

RECURSIVE SumPrices(_)
SumPrices(ls) ==
    IF ls = {} THEN 0
    ELSE LET l == CHOOSE x \in ls : TRUE IN ListingPrice(l) + SumPrices(ls \ {l})

---------------------------------------------------------------------------
(* C1 *)

\* C1: a settlement attempt that violates a precondition (reward-account mint
\* or owner mismatch, invalid metadata, insufficient buyer funds, an account
\* that is not at its derived address) fails, and after it the listing
\* records, the escrow balances and the set of open trade states are what
\* they were before it; more generally every failed attempt leaves every
\* account as it was.
C1_AtomicOnFailure ==
    /\ tx.pc = "failed" => chain = pre
    /\ (Ended /\ PreconditionViolated) =>
          /\ tx.pc = "failed"
          /\ chain.listing = pre.listing
          /\ chain.escrow = pre.escrow
          /\ chain.trade_states = pre.trade_states

\* C1 witness: a buyer who already bought one listing fails to fund a second.
C1_Witness ==
    /\ tx.pc = "failed"
    /\ tx.err = "InsufficientFunds"
    /\ tx.req.fault = "none"
    /\ \E l \in Listings : ~ chain.listing[l].open
    /\ chain = pre

---------------------------------------------------------------------------
(* C2 *)

\* C2: when a settlement returns success the listing is closed with its
\* storage returned to the seller, the buyer holds the asset, the seller has
\* been paid the listing price, and none of the buyer, seller and free seller
\* trade states of the listing is open.
C2_SuccessPostcondition ==
    tx.pc = "done" =>
        /\ ~ chain.listing[tx.req.asset].open
        /\ chain.listing[tx.req.asset].closed_to = Seller
        /\ chain.asset_holder[tx.req.asset] = tx.req.buyer
        /\ PaidForAsset = pre.listing[tx.req.asset].price
        /\ TradeStatesOf(tx.req.buyer, tx.req.asset) \cap chain.trade_states = {}

\* C2 witness: the second listing is settled after the first.
C2_Witness ==
    /\ tx.pc = "done"
    /\ tx.req.asset = "L2"
    /\ ~ chain.listing["L1"].open
    /\ chain.asset_holder["L2"] = tx.req.buyer

---------------------------------------------------------------------------
(* C3 *)

\* A request that nothing stands against: honest accounts, the reward
\* center's vault, funds for the price, the listing and its asks open, no bid
\* of this buyer open yet.
SoundRequest ==
    /\ tx.req.fault = "none"
    /\ tx.req.vault = "treasury"
    /\ pre.tokenAmount[PaymentAccountOf(tx.req.buyer)] >= ReqPrice
    /\ pre.listing[tx.req.asset].open
    /\ SellerTradeStateOf(tx.req.asset, tx.req.asset, auction_house.treasury_mint)
         \in pre.trade_states
    /\ FreeSellerTradeStateOf(tx.req.asset, tx.req.asset, auction_house.treasury_mint)
         \in pre.trade_states
    /\ BuyerTradeStateOf(tx.req.buyer, tx.req.asset, tx.req.asset,
                         auction_house.treasury_mint) \notin pre.trade_states

\* C3: of two settlement requests against one listing, whichever runs first
\* succeeds (when nothing else stands against it) and the one that runs after
\* a success fails at account validation, the listing being gone, before any
\* call is made and with every account unchanged; so a listing is settled, and
\* its seller paid, at most once.
C3_DoubleSettlement ==
    /\ \A l \in Listings : sales[l] <= 1
    /\ Quiet =>
         chain.tokenAmount[PaymentAccountOf(Seller)]
           = SumPrices({l \in Listings : ~ chain.listing[l].open})
    /\ (Ended /\ SoundRequest) => tx.pc = "done"
    /\ (Ended /\ ~ pre.listing[Accts.listing].open) =>
          /\ tx.pc = "failed"
          /\ tx.err = "AccountNotInitialized"
          /\ tx.calls = <<>>
          /\ chain = pre

\* C3 witness: the other buyer, with funds for the price, asks for a listing
\* that was settled before and is refused.
C3_Witness ==
    /\ tx.pc = "failed"
    /\ tx.req.fault = "none"
    /\ tx.req.vault = "treasury"
    /\ sales[tx.req.asset] = 1
    /\ chain.asset_holder[tx.req.asset] = Other(tx.req.buyer)
    /\ chain.tokenAmount[PaymentAccountOf(tx.req.buyer)] >= ReqPrice
    /\ tx.err = "AccountNotInitialized"

---------------------------------------------------------------------------
(* Vocabulary of the payout stage *)

\* Trade execution has succeeded in this settlement.
TradeExecuted == "auctioneer_execute_sale" \in Ops

\* The buyer payout decision has been reached in this settlement.
PayoutReached == TradeExecuted /\ tx.pc # "payouts"

\* The supplied treasury account is under the reward center's authority.
VaultUnderAuthority == OwnerOf(ReqVault) = RewardCenterKey

\* The balance the treasury account held at the buyer payout decision.
HeldAtBuyerDecision == tx.held_at_buyer_decision

BuyerShort ==
    /\ PayoutReached
    /\ 0 < HeldAtBuyerDecision
    /\ HeldAtBuyerDecision < tx.buyer_payout

SellerDue ==
    IF tx.seller_payout > 0 /\ HeldAtBuyerDecision >= tx.seller_payout
    THEN tx.seller_payout ELSE 0

---------------------------------------------------------------------------
(* C4 *)

\* C4 as claimed: whatever the treasury account and its balance, a settlement
\* whose trade execution succeeded does not fail afterwards.
C4_AsClaimed == tx.pc = "failed" => ~ TradeExecuted

\* C4 amended: for every balance of a treasury account that is under the
\* reward center's authority (0 and balances below the payouts included), a
\* settlement whose deposit, bid registration and trade execution succeeded
\* returns success with the asset and the payment exchanged.
C4_DepletedTreasury ==
    (TradeExecuted /\ VaultUnderAuthority) =>
        /\ tx.pc # "failed"
        /\ tx.pc = "done" =>
              /\ chain.asset_holder[tx.req.asset] = tx.req.buyer
              /\ PaidForAsset = ReqPrice

\* C4 witness: success on a vault that covers neither payout.
C4_Witness ==
    /\ tx.pc = "done"
    /\ VaultUnderAuthority
    /\ tx.buyer_payout > 0
    /\ pre.tokenAmount[ReqVault] < tx.buyer_payout
    /\ pre.tokenAmount[ReqVault] < tx.seller_payout
    /\ chain.asset_holder[tx.req.asset] = tx.req.buyer

---------------------------------------------------------------------------
(* C5 *)

\* C5 as claimed: whatever the treasury account, when it holds b with
\* 0 < b < buyerAmount at the buyer payout decision the settlement succeeds,
\* the buyer gets nothing and the seller gets sellerAmount exactly when
\* sellerAmount > 0 and b >= sellerAmount.
C5_AsClaimed ==
    (Ended /\ BuyerShort) =>
        /\ tx.pc = "done"
        /\ PaidToBuyer = 0
        /\ PaidToSeller = SellerDue

\* C5 amended: the same for a treasury account under the reward center's
\* authority; the seller decision then reads the unchanged balance b.
C5_BalanceGatedSkip ==
    (Ended /\ BuyerShort /\ VaultUnderAuthority) =>
        /\ tx.pc = "done"
        /\ PaidToBuyer = 0
        /\ tx.reward_center_reward_token_balance = HeldAtBuyerDecision
        /\ PaidToSeller = SellerDue
        /\ chain.tokenAmount[ReqVault] = HeldAtBuyerDecision - SellerDue

\* C5 witness: the buyer payout is skipped and the seller payout, which the
\* same balance covers, is made.
C5_Witness ==
    /\ tx.pc = "done"
    /\ BuyerShort
    /\ VaultUnderAuthority
    /\ PaidToBuyer = 0
    /\ PaidToSeller = tx.seller_payout
    /\ tx.seller_payout > 0

---------------------------------------------------------------------------
(* C6 *)

\* C6 as claimed: the seller payout is never made in a settlement in which a
\* non-zero buyer payout was skipped.
C6_AsClaimed ==
    (tx.pc = "done" /\ tx.buyer_payout > 0 /\ PaidToBuyer = 0) => PaidToSeller = 0

\* C6 amended: on a treasury account under the reward center's authority
\* whose balance covers the buyer payout but not both payouts, the buyer is
\* paid and the seller is not; the seller is paid after a skipped non-zero
\* buyer payout only when sellerAmount <= balance < buyerAmount.
C6_BuyerFirst ==
    /\ (Ended /\ PayoutReached /\ VaultUnderAuthority
          /\ tx.buyer_payout > 0 /\ tx.seller_payout > 0
          /\ HeldAtBuyerDecision >= tx.buyer_payout
          /\ HeldAtBuyerDecision < tx.buyer_payout + tx.seller_payout) =>
            /\ tx.pc = "done"
            /\ PaidToBuyer = tx.buyer_payout
            /\ PaidToSeller = 0
    /\ (tx.pc = "done" /\ tx.buyer_payout > 0 /\ PaidToBuyer = 0 /\ PaidToSeller > 0) =>
            /\ tx.seller_payout <= HeldAtBuyerDecision
            /\ HeldAtBuyerDecision < tx.buyer_payout

\* C6 witness: the balance covers one payout of two; the buyer has it.
C6_Witness ==
    /\ tx.pc = "done"
    /\ VaultUnderAuthority
    /\ tx.seller_payout > 0
    /\ HeldAtBuyerDecision < tx.buyer_payout + tx.seller_payout
    /\ PaidToBuyer = tx.buyer_payout
    /\ PaidToBuyer > 0
    /\ PaidToSeller = 0

---------------------------------------------------------------------------
(* C7 *)

\* C7: in any settlement the buyer's reward account is credited 0 or exactly
\* buyerAmount and the seller's 0 or exactly sellerAmount, and the reward
\* center's vault is debited their sum; with payouts 50/50 and 30 in the
\* vault both are skipped, the vault keeps 30 and the trade settles.
C7_AllOrNothing ==
    Started =>
        /\ PaidToBuyer \in {0, tx.buyer_payout}
        /\ PaidToSeller \in {0, tx.seller_payout}
        /\ ReqVault = "rcVault" =>
              pre.tokenAmount["rcVault"] - chain.tokenAmount["rcVault"]
                = PaidToBuyer + PaidToSeller
        /\ (Ended /\ PayoutReached /\ ReqVault = "rcVault"
              /\ tx.buyer_payout = 50 /\ tx.seller_payout = 50
              /\ pre.tokenAmount["rcVault"] = 30) =>
                /\ tx.pc = "done"
                /\ chain.tokenAmount["rcVault"] = 30
                /\ PaidToBuyer = 0
                /\ PaidToSeller = 0

\* C7 witness: payouts 50/50, 30 in the vault, settled, nothing paid.
C7_Witness ==
    /\ tx.pc = "done"
    /\ ReqVault = "rcVault"
    /\ tx.buyer_payout = 50
    /\ tx.seller_payout = 50
    /\ pre.tokenAmount["rcVault"] = 30
    /\ chain.tokenAmount["rcVault"] = 30
    /\ chain.asset_holder[tx.req.asset] = tx.req.buyer

---------------------------------------------------------------------------
(* C8 *)

\* C8: at the buyer payout decision and at the seller payout decision the
\* balance the payout is compared with is what the treasury account holds at
\* that moment.
C8_FreshBalance ==
    tx.pc \in {"buyer_transfer", "seller_transfer"} =>
        tx.reward_center_reward_token_balance = chain.tokenAmount[ReqVault]

---------------------------------------------------------------------------
(* C9 *)

PreconditionErrors ==
    {"MintMismatch", "BuyerTokenAccountMismatch", "SellerTokenAccountMismatch",
     "ConstraintSeeds", "InvalidMetadata"}

\* C9: a mutating call (deposit, bid registration, trade execution, a reward
\* transfer) is made only after the account constraints and the metadata
\* check have passed; a settlement that fails one of them has made no
\* mutating call and changed no account.
C9_ValidationFirst ==
    /\ Ops \cap MutatingOps # {} =>
          /\ tx.req.fault \in {"none", "buyer_reward_is_payment"}
          /\ MintOf(ReqVault, auction_house.treasury_mint) = RewardMint
          /\ tx.calls[1].op = "assert_metadata_valid"
    /\ (tx.pc = "failed" /\ tx.err \in PreconditionErrors) =>
          /\ Ops \cap MutatingOps = {}
          /\ chain = pre
    /\ tx.pc \in {"assert_metadata_valid", "auctioneer_deposit"} => chain = pre

\* C9 witness: the metadata check fails a settlement whose accounts passed
\* their constraints, before anything was called.
C9_Witness ==
    /\ tx.pc = "failed"
    /\ tx.req.fault = "metadata"
    /\ tx.err = "InvalidMetadata"
    /\ tx.calls = <<>>
    /\ chain = pre

---------------------------------------------------------------------------
(* C10 *)

DerivedAccountFaults ==
    {"escrow", "fee", "ah_treasury", "buyer_trade_state", "seller_trade_state",
     "free_seller_trade_state", "program_as_signer", "buyer_trade_state_sentinel"}

\* C10: a settlement that supplies, for the escrow, fee, treasury, buyer,
\* seller or free seller trade state or program signer account, an account
\* other than the derived one fails before any call with every account
\* unchanged; on an open listing the failure is the seeds (address mismatch)
\* error and the listing stays open.
C10_NoTrustedAddress ==
    (Ended /\ tx.req.fault \in DerivedAccountFaults) =>
        /\ tx.pc = "failed"
        /\ tx.calls = <<>>
        /\ chain = pre
        /\ pre.listing[tx.req.asset].open =>
              /\ tx.err = "ConstraintSeeds"
              /\ chain.listing[tx.req.asset].open

\* C10 witness: a funded buyer supplies another buyer's trade state for an
\* open listing.
C10_Witness ==
    /\ tx.pc = "failed"
    /\ tx.req.fault = "buyer_trade_state"
    /\ tx.err = "ConstraintSeeds"
    /\ chain.listing[tx.req.asset].open
    /\ chain.tokenAmount[PaymentAccountOf(tx.req.buyer)] >= ReqPrice
    /\ chain = pre

---------------------------------------------------------------------------
(* C11 *)

\* The price seed of a trade state address (the seed before the token size).
PriceSeed(trade_state) == trade_state[2][Len(trade_state[2]) - 1]

\* The accounts of the settlement have passed their constraints.
Accepted == Started /\ (tx.pc = "failed" => tx.err \notin
                {"AccountNotInitialized", "MintMismatch", "BuyerTokenAccountMismatch",
                 "SellerTokenAccountMismatch", "ConstraintSeeds"})

\* C11 as claimed: the buyer trade state accepted by settlement and used for
\* bid registration has u64::MAX in its price seed, the free seller trade
\* state has zero, and an account derived with another price is rejected.
C11_AsClaimed ==
    /\ Accepted =>
          /\ PriceSeed(Accts.buyer_trade_state) = to_le_bytes(U64_MAX)
          /\ PriceSeed(Accts.free_seller_trade_state) = to_le_bytes(0)
    /\ (Ended /\ tx.req.fault = "none" /\ pre.listing[tx.req.asset].open) =>
          tx.err # "ConstraintSeeds"

\* C11 amended: the buyer trade state accepted by settlement and registered
\* by the bid has the listing's stored price in its price seed; the sentinel
\* u64::MAX is the price seed of the seller trade state, and zero that of the
\* free seller trade state.  A buyer trade state derived with u64::MAX, a
\* seller trade state derived with zero and a free seller trade state derived
\* with u64::MAX are rejected with the seeds error before any call.
C11_TradeStatePrices ==
    /\ Accepted =>
          /\ PriceSeed(Accts.buyer_trade_state) = to_le_bytes(pre.listing[Accts.listing].price)
          /\ PriceSeed(Accts.seller_trade_state) = to_le_bytes(U64_MAX)
          /\ PriceSeed(Accts.free_seller_trade_state) = to_le_bytes(0)
    /\ "auctioneer_public_buy" \in Ops =>
          /\ tx.listing_price = pre.listing[Accts.listing].price
          /\ tx.listing_price # U64_MAX
          /\ tx.pc = "auctioneer_execute_sale" =>
                Accts.buyer_trade_state \in chain.trade_states
    /\ (Ended /\ pre.listing[tx.req.asset].open
          /\ tx.req.fault \in {"buyer_trade_state_sentinel", "seller_trade_state",
                               "free_seller_trade_state"}) =>
          /\ tx.pc = "failed"
          /\ tx.err = "ConstraintSeeds"
          /\ tx.calls = <<>>

\* C11 witness: a funded buyer supplies, for an open listing, the buyer trade
\* state derived with u64::MAX and is refused.
C11_Witness ==
    /\ tx.pc = "failed"
    /\ tx.req.fault = "buyer_trade_state_sentinel"
    /\ PriceSeed(Accts.buyer_trade_state) = to_le_bytes(U64_MAX)
    /\ tx.err = "ConstraintSeeds"
    /\ pre.listing[tx.req.asset].open
    /\ pre.tokenAmount[PaymentAccountOf(tx.req.buyer)] >= ReqPrice

---------------------------------------------------------------------------
(* C12 *)

\* The account a reward leg credits is of the reward center's token mint and
\* belongs to the trader.
BoundTo(account, trader) ==
    /\ MintOf(account, auction_house.treasury_mint) = chain.reward_center.token_mint
    /\ OwnerOf(account) = trader

\* C12: every reward transfer of a settlement credits a token account of the
\* reward center's configured mint that is owned by the buyer (buyer payout)
\* or by the seller (seller payout), and no other trader's account gains
\* reward tokens; a settlement supplying a reward account of another mint or
\* owner is rejected before any call, with nothing moved.
C12_RecipientsBound ==
    /\ "transfer_buyer" \in Ops =>
          /\ BoundTo(Accts.buyer_reward_token_account, tx.req.buyer)
          /\ Accts.buyer_reward_token_account = ReqBuyerReward
    /\ "transfer_seller" \in Ops =>
          /\ BoundTo(Accts.seller_reward_token_account, Seller)
          /\ Accts.seller_reward_token_account = ReqSellerReward
    /\ Started =>
          chain.tokenAmount[RewardAccountOf(Other(tx.req.buyer))]
            = pre.tokenAmount[RewardAccountOf(Other(tx.req.buyer))]
    /\ (Ended /\ tx.req.fault \in MintFaults \cup OwnerFaults) =>
          /\ tx.pc = "failed"
          /\ tx.calls = <<>>
          /\ chain = pre
          /\ pre.listing[tx.req.asset].open =>
                tx.err = CASE tx.req.fault \in MintFaults -> "MintMismatch"
                           [] tx.req.fault = "buyer_reward_owner" -> "BuyerTokenAccountMismatch"
                           [] OTHER -> "SellerTokenAccountMismatch"

\* C12 witness: both payouts made, each to the trader's own reward account.
C12_Witness ==
    /\ tx.pc = "done"
    /\ "transfer_buyer" \in Ops
    /\ "transfer_seller" \in Ops
    /\ BoundTo(Accts.buyer_reward_token_account, tx.req.buyer)
    /\ BoundTo(Accts.seller_reward_token_account, Seller)
    /\ PaidToBuyer = tx.buyer_payout
    /\ PaidToSeller = tx.seller_payout
    /\ PaidToBuyer > 0
    /\ PaidToSeller > 0

---------------------------------------------------------------------------
(* C13 *)

\* The scenario: the listing priced 1,000, a 5%/5% split, 1,000 reward tokens
\* in the reward center's vault, and a request nothing stands against.
SuccessfulTradeScenario ==
    /\ SoundRequest
    /\ pre.listing[tx.req.asset].price = 1000
    /\ pre.reward_center.split = [buyer |-> 500, seller |-> 500]
    /\ pre.tokenAmount["rcVault"] = 1000

\* C13: in the scenario the settlement succeeds with payouts computed as 50
\* and 50; it credits exactly 50 to the buyer's reward account and 50 to the
\* seller's, leaves 900 in the vault, closes the listing, gives the buyer the
\* asset and the seller 1,000 of payment.
C13_SuccessfulTrade ==
    (Ended /\ SuccessfulTradeScenario) =>
        /\ tx.pc = "done"
        /\ tx.buyer_payout = 50
        /\ tx.seller_payout = 50
        /\ PaidToBuyer = 50
        /\ PaidToSeller = 50
        /\ chain.tokenAmount["rcVault"] = 900
        /\ ~ chain.listing[tx.req.asset].open
        /\ chain.asset_holder[tx.req.asset] = tx.req.buyer
        /\ PaidForAsset = 1000

\* C13 witness: the scenario, settled, with 900 left in the vault.
C13_Witness ==
    /\ tx.pc = "done"
    /\ SuccessfulTradeScenario
    /\ chain.tokenAmount["rcVault"] = 900
    /\ PaidToBuyer = 50
    /\ PaidToSeller = 50

---------------------------------------------------------------------------
(* C14 *)

\* The calls of the settlement that have returned Ok, in the order made.
OpSeq == [i \in 1..Len(tx.calls) |-> tx.calls[i].op]

\* The calls that come before the payout stage.
TradeSteps ==
    <<"assert_metadata_valid", "auctioneer_deposit", "auctioneer_public_buy",
      "auctioneer_execute_sale">>

IsPrefix(s, t) == Len(s) <= Len(t) /\ s = SubSeq(t, 1, Len(s))

\* C14: the calls of a settlement are made in the order metadata check,
\* deposit, bid registration, trade execution, buyer payout, seller payout; a
\* step is at hand only when every step before it has succeeded, and a reward
\* transfer is attempted only after trade execution succeeded in the same
\* settlement; the buyer payout has been decided when the balance is read
\* again for the seller payout.
C14_StepOrder ==
    /\ Len(OpSeq) <= 4 => IsPrefix(OpSeq, TradeSteps)
    /\ Len(OpSeq) > 4 =>
          /\ SubSeq(OpSeq, 1, 4) = TradeSteps
          /\ SubSeq(OpSeq, 5, Len(OpSeq))
               \in {<<"transfer_buyer">>, <<"transfer_seller">>,
                    <<"transfer_buyer", "transfer_seller">>}
    /\ tx.pc = "assert_metadata_valid" => OpSeq = <<>>
    /\ tx.pc = "auctioneer_deposit" => OpSeq = SubSeq(TradeSteps, 1, 1)
    /\ tx.pc = "auctioneer_public_buy" => OpSeq = SubSeq(TradeSteps, 1, 2)
    /\ tx.pc = "auctioneer_execute_sale" => OpSeq = SubSeq(TradeSteps, 1, 3)
    /\ tx.pc \in {"payouts", "buyer_transfer"} => OpSeq = TradeSteps
    /\ tx.pc \in {"reload", "seller_transfer"} =>
          /\ IsPrefix(TradeSteps, OpSeq)
          /\ "transfer_seller" \notin Ops
    /\ tx.pc = "reload" =>
          ("transfer_buyer" \in Ops
             <=> (tx.buyer_payout > 0
                    /\ tx.reward_center_reward_token_balance >= tx.buyer_payout))
    /\ tx.pc = "done" => IsPrefix(TradeSteps, OpSeq)

\* C14 witness: a settlement that made all six calls, in order.
C14_Witness ==
    /\ tx.pc = "done"
    /\ OpSeq = TradeSteps \o <<"transfer_buyer", "transfer_seller">>

---------------------------------------------------------------------------
(* C15 *)

\* The calls of the settlement that need an authority: the three auction
\* house calls and the reward transfers.
AuthorisedCalls ==
    {i \in 1..Len(tx.calls) : tx.calls[i].op \in MutatingOps}

\* C15: every auction house call (deposit, bid registration, trade execution)
\* and every reward transfer of a settlement is signed for by the identity
\* derived from the seeds (REWARD_CENTER, auction house key, reward center
\* bump), the reward center's own address, the same for all of them and never
\* the buyer's or the seller's key; a settlement nothing stands against makes
\* its three auction house calls under it.
C15_DelegatedAuthority ==
    /\ \A i \in AuthorisedCalls :
          /\ tx.calls[i].authority = RewardCenterKey
          /\ tx.calls[i].authority = SignerOf(<<REWARD_CENTER, AuctionHouseKey,
                                                 chain.reward_center.bump>>)
          /\ tx.calls[i].authority \notin Wallets
    /\ \A i, j \in AuthorisedCalls : tx.calls[i].authority = tx.calls[j].authority
    /\ (Started /\ Accepted /\ tx.pc # "failed") =>
          tx.signer_seeds = <<REWARD_CENTER, Accts.auction_house, pre.reward_center.bump>>
    /\ (Ended /\ SoundRequest) =>
          {"auctioneer_deposit", "auctioneer_public_buy", "auctioneer_execute_sale"}
             \subseteq {tx.calls[i].op : i \in AuthorisedCalls}

\* C15 witness: a settlement with all five authorised calls made, each under
\* the reward center's address.
C15_Witness ==
    /\ tx.pc = "done"
    /\ {tx.calls[i].op : i \in AuthorisedCalls} = MutatingOps
    /\ \A i \in AuthorisedCalls : tx.calls[i].authority = RewardCenterKey

---------------------------------------------------------------------------
(* C16 *)

\* What one step of a settlement may do to the reward center's account and
\* to the escrow balances: the first it leaves alone; the second change only
\* when auctioneer_deposit adds the price to the buyer's escrow account, when
\* the execute sale takes it out, or when a failing transaction is undone.
FrameStep ==
    /\ chain'.reward_center = chain.reward_center
    /\ chain'.escrow # chain.escrow =>
          \/ /\ tx.pc = "auctioneer_deposit"
             /\ tx'.pc = "auctioneer_public_buy"
             /\ chain'.escrow = [chain.escrow EXCEPT
                                   ![EscrowKey(tx.req.buyer)] = @ + tx.listing_price]
          \/ /\ tx.pc = "auctioneer_execute_sale"
             /\ tx'.pc = "payouts"
             /\ chain'.escrow = [chain.escrow EXCEPT
                                   ![EscrowKey(tx.req.buyer)] = @ - tx.listing_price]
          \/ /\ tx'.pc = "failed"
             /\ chain'.escrow = pre.escrow

\* C16: no step of any settlement, successful or failed, changes the reward
\* center's configuration (auction house reference, token mint, split, bump),
\* and the buyer's escrow balance is changed only by the auction house's
\* deposit and execute sale, never by the settlement code itself.
C16_Frame == [][FrameStep]_vars

\* C16 witness: the deposit has raised the buyer's escrow balance by the
\* price and the reward center's account is as it was.
C16_Witness ==
    /\ tx.pc = "auctioneer_public_buy"
    /\ chain.escrow[EscrowKey(tx.req.buyer)]
         = pre.escrow[EscrowKey(tx.req.buyer)] + tx.listing_price
    /\ tx.listing_price > 0
    /\ chain.reward_center = pre.reward_center

---------------------------------------------------------------------------
(* C17 *)

\* The reward tokens held by the three accounts a settlement names as the
\* treasury, the buyer's and the seller's reward account.
RewardHoldings(c) ==
    c.tokenAmount[ReqVault] + c.tokenAmount[ReqBuyerReward] + c.tokenAmount[ReqSellerReward]

\* The payouts the settlement has disbursed.
Disbursed ==
    (IF "transfer_buyer" \in Ops THEN tx.buyer_payout ELSE 0)
      + (IF "transfer_seller" \in Ops THEN tx.seller_payout ELSE 0)

\* None of the three accounts is one the payment of the trade moves through.
ApartFromPayment ==
    {ReqVault, ReqBuyerReward, ReqSellerReward}
       \cap {PaymentAccountOf(tx.req.buyer), PaymentAccountOf(Seller)} = {}

\* C17 as claimed: for every settlement the sum of the treasury, buyer and
\* seller reward balances is what it was before, the treasury is never
\* negative, a successful settlement lowers the treasury by exactly the
\* payouts it disbursed and a failed one leaves it unchanged.
C17_AsClaimed ==
    /\ Started => chain.tokenAmount[ReqVault] >= 0
    /\ Ended => RewardHoldings(chain) = RewardHoldings(pre)
    /\ tx.pc = "done" =>
          pre.tokenAmount[ReqVault] - chain.tokenAmount[ReqVault] = Disbursed
    /\ tx.pc = "failed" => chain.tokenAmount[ReqVault] = pre.tokenAmount[ReqVault]

\* C17 amended: the same for the settlements in which neither the treasury
\* account nor a reward account is an account the trade's payment moves
\* through (the buyer's payment account, the seller's receipt account); no
\* token account ever goes negative, and whatever the accounts, the reward
\* center's own vault is lowered by a settlement by exactly what that
\* settlement disbursed out of it.
C17_Conservation ==
    /\ \A a \in TokenAccounts : chain.tokenAmount[a] >= 0
    /\ (Ended /\ ApartFromPayment) => RewardHoldings(chain) = RewardHoldings(pre)
    /\ (tx.pc = "done" /\ ApartFromPayment) =>
          pre.tokenAmount[ReqVault] - chain.tokenAmount[ReqVault] = Disbursed
    /\ tx.pc = "failed" => chain.tokenAmount[ReqVault] = pre.tokenAmount[ReqVault]
    /\ Started =>
          pre.tokenAmount["rcVault"] - chain.tokenAmount["rcVault"]
            = IF ReqVault = "rcVault" THEN PaidToBuyer + PaidToSeller ELSE 0

\* C17 witness: the second settlement out of one vault; both payouts made
\* and the sum of the three balances as before.
C17_Witness ==
    /\ tx.pc = "done"
    /\ ApartFromPayment
    /\ ReqVault = "rcVault"
    /\ \E l \in Listings : l # tx.req.asset /\ ~ chain.listing[l].open
    /\ Disbursed = tx.buyer_payout + tx.seller_payout
    /\ tx.buyer_payout > 0
    /\ tx.seller_payout > 0
    /\ pre.tokenAmount["rcVault"] < 1000
    /\ RewardHoldings(chain) = RewardHoldings(pre)

---------------------------------------------------------------------------
(* C18 *)

\* The price and the token size stored in the listing account supplied.
StoredPrice == pre.listing[Accts.listing].price
StoredTokenSize == pre.listing[Accts.listing].token_size

\* The amounts passed to the call op, when it has been made.
ArgsOf(op) ==
    {tx.calls[i].args : i \in {k \in 1..Len(tx.calls) : tx.calls[k].op = op}}

\* C18: the amount deposited, the price and size of the bid, the buyer price
\* and size of the trade execution are the listing's stored price and token
\* size, the payouts are computed from the stored price, and after a
\* successful settlement every escrow balance is what it was before it.
C18_SinglePrice ==
    Started =>
        /\ ArgsOf("auctioneer_deposit") \subseteq {<<StoredPrice>>}
        /\ ArgsOf("auctioneer_public_buy") \subseteq {<<StoredPrice, StoredTokenSize>>}
        /\ ArgsOf("auctioneer_execute_sale") \subseteq {<<StoredPrice, StoredTokenSize>>}
        /\ (PayoutReached /\ tx.pc # "failed") =>
              <<tx.seller_payout, tx.buyer_payout>>
                 = payouts(pre.reward_center, StoredPrice)
        /\ tx.pc \in {"auctioneer_public_buy", "auctioneer_execute_sale"} =>
              chain.escrow[EscrowKey(tx.req.buyer)]
                = pre.escrow[EscrowKey(tx.req.buyer)] + StoredPrice
        /\ tx.pc = "done" => chain.escrow = pre.escrow

\* C18 witness: a buyer with 200 left in escrow from before settles the
\* listing priced 1,000 and has 200 in escrow afterwards.
C18_Witness ==
    /\ tx.pc = "done"
    /\ ArgsOf("auctioneer_deposit") = {<<1000>>}
    /\ ArgsOf("auctioneer_execute_sale") = {<<1000, 1>>}
    /\ pre.escrow[EscrowKey(tx.req.buyer)] = 200
    /\ chain.escrow[EscrowKey(tx.req.buyer)] = 200

---------------------------------------------------------------------------
(* C19 *)

\* The treasury account holds enough for a payout that is due.
CoversAPayout ==
    \/ tx.buyer_payout > 0 /\ HeldAtBuyerDecision >= tx.buyer_payout
    \/ tx.seller_payout > 0 /\ HeldAtBuyerDecision >= tx.seller_payout

\* C19: the treasury account is accepted on its mint alone (an account of the
\* reward mint, whoever owns it, gets past the constraints; one of another
\* mint does not); reward tokens leave it only by a transfer the reward
\* center is the authority of; and when it is not under the reward center's
\* authority but holds enough for a payout that is due, the transfer error
\* ends the settlement and the trade is undone with it, the payout is not
\* skipped.
C19_TreasuryBinding ==
    /\ (Ended /\ tx.req.fault = "none" /\ pre.listing[tx.req.asset].open) =>
          IF MintOf(ReqVault, auction_house.treasury_mint) = RewardMint
          THEN "assert_metadata_valid" \in Ops
          ELSE tx.pc = "failed" /\ tx.err = "MintMismatch" /\ tx.calls = <<>>
    /\ (Started /\ ~ VaultUnderAuthority) =>
          /\ "transfer_buyer" \notin Ops
          /\ "transfer_seller" \notin Ops
    /\ (Started /\ chain.tokenAmount["rcVault"] < pre.tokenAmount["rcVault"]) =>
          /\ VaultUnderAuthority
          /\ \E i \in AuthorisedCalls :
                /\ tx.calls[i].op \in {"transfer_buyer", "transfer_seller"}
                /\ tx.calls[i].authority = RewardCenterKey
    /\ (Ended /\ PayoutReached /\ ~ VaultUnderAuthority /\ CoversAPayout) =>
          /\ tx.pc = "failed"
          /\ tx.err = "OwnerMismatch"
          /\ chain = pre
          /\ chain.asset_holder[tx.req.asset] = Seller
          /\ chain.listing[tx.req.asset].open

\* C19 witness: a vault of the reward mint that is not the reward center's,
\* holding enough for the buyer payout; the trade was executed and is undone.
C19_Witness ==
    /\ tx.pc = "failed"
    /\ tx.req.vault = "rogue"
    /\ TradeExecuted
    /\ tx.buyer_payout > 0
    /\ pre.tokenAmount["rogueVault"] >= tx.buyer_payout
    /\ tx.err = "OwnerMismatch"
    /\ chain.asset_holder[tx.req.asset] = Seller
    /\ chain.listing[tx.req.asset].open
    /\ chain.tokenAmount["rogueVault"] = pre.tokenAmount["rogueVault"]

=============================================================================
